---------------------------- MODULE Spec2Model ----------------------------
(***************************************************************************)
(* Model of src/kabuka2.py: a Streamlit script that downloads daily OHLC   *)
(* prices through the memoized function get_data and shapes them for a     *)
(* multi-line chart or a candlestick chart.  The script is re-executed     *)
(* from top to bottom on every user interaction (a "render pass").         *)
(***************************************************************************)
EXTENDS Integers, Sequences, FiniteSets

(***************************************************************************)
(* Bounds of the model.                                                    *)
(***************************************************************************)
\* the slider of line 19 ranges over 1..100; the model keeps 1..MaxDays
MaxDays == 2
\* the script lists six instruments (lines 75-82); the model keeps the first
\* NumInstruments of them
NumInstruments == 2

(***************************************************************************)
(* Instruments (lines 75-83).                                              *)
(***************************************************************************)
AllTickers ==
  << [name |-> "apple",     symbol |-> "AAPL"],
     [name |-> "meta",      symbol |-> "META"],
     [name |-> "google",    symbol |-> "GOOGL"],
     [name |-> "microsoft", symbol |-> "MSFT"],
     [name |-> "netflix",   symbol |-> "NFLX"],
     [name |-> "amazon",    symbol |-> "AMZN"] >>

\* the dict `tickers` of the script, in insertion order
Tickers == SubSeq(AllTickers, 1, NumInstruments)

\* company_names = list(tickers.keys())
company_names(tkrs) == [i \in 1..Len(tkrs) |-> tkrs[i].name]

\* tkr_list = list(tickers.values())
tkr_list(tkrs) == [i \in 1..Len(tkrs) |-> tkrs[i].symbol]

\* tickers[selected_company]
SymbolOf(tkrs, n) ==
  tkrs[CHOOSE i \in 1..Len(tkrs) : tkrs[i].name = n].symbol

\* ticker_to_name = {v: k for k, v in tickers.items()} applied to a symbol;
\* a later item of the dict overwrites an earlier one with the same symbol
ticker_to_name(tkrs, s) ==
  LET hits == {i \in 1..Len(tkrs) : tkrs[i].symbol = s}
      last == CHOOSE i \in hits : \A j \in hits : j <= i
  IN  tkrs[last].name

Range(s) == {s[i] : i \in 1..Len(s)}

\* the ascending sequence of a finite set of integers
RECURSIVE SortedSeq(_)
SortedSeq(S) ==
  IF S = {} THEN <<>>
  ELSE LET m == CHOOSE x \in S : \A y \in S : x <= y
       IN  <<m>> \o SortedSeq(S \ {m})

\* the sequences without repetition over a set (what a multiselect returns)
RECURSIVE Arrangements(_)
Arrangements(S) ==
  {<<>>} \cup UNION {{<<x>> \o t : t \in Arrangements(S \ {x})} : x \in S}

(***************************************************************************)
(* Calendar and market data.  Dates are day numbers; datetime.now() of     *)
(* line 36 is the day Today.  A price is <<p>>, a missing value (NaN) is   *)
(* the empty sequence.                                                     *)
(***************************************************************************)
Today == MaxDays
Dates == 1..Today

Missing == <<>>

OHLCFields == <<"Open", "High", "Low", "Close">>
ProviderFields == <<"Open", "High", "Low", "Close", "Volume">>

FieldNo(f) == CHOOSE i \in 1..Len(ProviderFields) : ProviderFields[i] = f
SymNo(s) == CHOOSE i \in 1..Len(AllTickers) : AllTickers[i].symbol = s

\* the provider's value of one field of one symbol on one date: every cell is
\* different, a hole of the market has no value
Quote(m, f, s, d) ==
  IF <<s, d>> \in m.holes THEN Missing
  ELSE <<100 * FieldNo(f) + 10 * SymNo(s) + d>>

\* what the provider knows: the trading days, and the (symbol, date) pairs
\* for which it has no quote
Markets(syms, maxHoles) ==
  {m \in [trading : SUBSET Dates, holes : SUBSET (syms \X Dates)] :
      /\ Cardinality(m.holes) <= maxHoles
      /\ \A h \in m.holes : h[2] \in m.trading}

(***************************************************************************)
(* Tables.  A column label is a sequence of levels, each level a sequence  *)
(* of strings: "Open" is << <<"Open">> >>, ("Open", "AAPL") is             *)
(* << <<"Open">>, <<"AAPL">> >>, and a level holding the Python tuple      *)
(* ("AAPL", "Open") is <<"AAPL", "Open">>.                                 *)
(***************************************************************************)
Label1(a) == << <<a>> >>
Label2(a, b) == << <<a>>, <<b>> >>

EmptyFrame ==
  [index |-> <<>>, indexKind |-> "Index", nlevels |-> 1, columns |-> <<>>]

\* DataFrame.empty
IsEmpty(df) == Len(df.index) = 0 \/ Len(df.columns) = 0

\* the position of the column of a label, 0 when there is none
ColumnAt(df, lab) ==
  IF \E i \in 1..Len(df.columns) : df.columns[i].label = lab
  THEN CHOOSE i \in 1..Len(df.columns) : df.columns[i].label = lab
  ELSE 0


(***************************************************************************)
(* The market-data provider: yf.download(tkr_list, start=..., end=...).    *)
(***************************************************************************)
\* a window that is never shorter than one day
StartDate_clamped(days) == Today - ((IF days < 1 THEN 1 ELSE days) - 1)

\* start_date = end_date - timedelta(days=days-1)
StartDate(days) == Today - (days - 1)

\* the request of line 41, with the memoization key it is issued for
Request(days, tkrs) ==
  [key |-> <<days, tkrs>>, symbols |-> tkr_list(tkrs),
   start |-> StartDate(days), end |-> Today]

\* the rows the provider has for a request: the trading days of its window
RowsFor(req, m) ==
  SortedSeq({d \in m.trading : req.start <= d /\ d <= req.end})

\* the provider's table: one column per (field, symbol), or one column per
\* field when `flat` (the single-symbol shape without the symbol level)
ProviderFrame(syms, rows, m, flat, kind) ==
  LET n == Len(syms)
      fieldAt(k) == ProviderFields[((k - 1) \div n) + 1]
      symAt(k) == syms[((k - 1) % n) + 1]
  IN  [index |-> rows, indexKind |-> kind,
       nlevels |-> IF flat THEN 1 ELSE 2,
       columns |->
         [k \in 1..(Len(ProviderFields) * n) |->
            [label |-> IF flat THEN Label1(fieldAt(k))
                       ELSE Label2(fieldAt(k), symAt(k)),
             data |-> [d \in Range(rows) |-> Quote(m, fieldAt(k), symAt(k), d)]]]]

\* every outcome of the download: it raises, it returns an empty table (with
\* or without columns), or it returns the rows of the window; for one symbol the table may lack the
\* symbol level, and lines 48-50 allow for an index that is no DatetimeIndex
download(req, m) ==
  LET rows == RowsFor(req, m)
      shapes == IF Len(req.symbols) = 1
                THEN {TRUE, FALSE} \X {"DatetimeIndex", "Index"}
                ELSE {<<FALSE, "DatetimeIndex">>}
  IN  {[kind |-> "raise", hist |-> EmptyFrame],
       [kind |-> "frame", hist |-> EmptyFrame],
       [kind |-> "frame",
        hist |-> ProviderFrame(req.symbols, <<>>, m, FALSE, "DatetimeIndex")]}
      \cup
      {[kind |-> "frame",
        hist |-> ProviderFrame(req.symbols, rows, m, sh[1], sh[2])] :
          sh \in IF rows = <<>> THEN {} ELSE shapes}

(***************************************************************************)
(* get_data (lines 31-71).  A Python value that may be None is a sequence: *)
(* None is <<>>, an object x is <<x>>.  The bare None of line 46 is <<>>,  *)
(* the pair of line 66 is << <<hist>>, <<df_close>> >> and the pair of     *)
(* line 71 is << <<>>, <<>> >>.                                            *)
(***************************************************************************)
None == <<>>
Some(x) == <<x>>

\* pd.concat({sym: hist}, axis=1): the symbol becomes the outer level
Concat(sym, hist) ==
  [hist EXCEPT !.nlevels = 2,
               !.columns = [i \in 1..Len(hist.columns) |->
                  [label |-> << <<sym>>, hist.columns[i].label[1] >>,
                   data |-> hist.columns[i].data]]]

\* line 52: zip pairs each column, by now the tuple (sym, field), with sym
Retuple(hist, sym) ==
  [hist EXCEPT !.columns = [i \in 1..Len(hist.columns) |->
     [label |-> << hist.columns[i].label[1] \o hist.columns[i].label[2],
                   <<sym>> >>,
      data |-> hist.columns[i].data]]]

\* lines 48-52
Rewrap(hist, tl) ==
  IF Len(tl) = 1 /\ hist.indexKind # "DatetimeIndex"
  THEN IF hist.nlevels # 2 THEN Retuple(Concat(tl[1], hist), tl[1]) ELSE hist
  ELSE hist

\* the positions of the columns whose outer level is Close
CloseColumns(hist) ==
  {i \in 1..Len(hist.columns) : hist.columns[i].label[1] = <<"Close">>}

\* lines 59-64 succeed when hist["Close"] is a DataFrame: the columns have two
\* levels and some column has the outer level Close.  Otherwise hist["Close"]
\* is a KeyError, or a Series, which has no attribute `columns` (line 62).
CloseIsFrame(hist) == hist.nlevels = 2 /\ CloseColumns(hist) # {}

\* lines 59-64: the Close columns, renamed from symbol to name, transposed
CloseMatrix(hist, tkrs) ==
  LET cols == SortedSeq(CloseColumns(hist))
  IN  [columns |-> hist.index,
       rows |-> [i \in 1..Len(cols) |->
          [label |-> ticker_to_name(tkrs, hist.columns[cols[i]].label[2][1]),
           data |-> hist.columns[cols[i]].data]]]

\* the except clause of lines 68-71
FetchExcept ==
  [ret |-> <<None, None>>, msgs |-> <<"fetch_exception", "fetch_traceback">>]

\* lines 47-66, on a table that passed the check of line 44
Process(tkrs, h) ==
  LET hist == Rewrap(h, tkr_list(tkrs))
  IN  IF CloseIsFrame(hist)
      THEN [ret |-> <<Some(hist), Some(CloseMatrix(hist, tkrs))>>,
            msgs |-> <<>>]
      ELSE FetchExcept

\* a version of get_data without the check of lines 44-46
get_data_unchecked(tkrs, resp) ==
  IF resp.kind = "raise" THEN FetchExcept ELSE Process(tkrs, resp.hist)

\* the body of get_data for one outcome of the download: what it returns and
\* the st.error messages it emits
get_data(tkrs, resp) ==
  IF resp.kind = "raise" THEN FetchExcept
  ELSE IF IsEmpty(resp.hist)
       THEN [ret |-> None, msgs |-> <<"fetch_empty">>]
       ELSE Process(tkrs, resp.hist)

(***************************************************************************)
(* The view shaper.  A shaped table is [columns, rows], each row a         *)
(* function from the column names to the values.                           *)
(***************************************************************************)
NoChart == [kind |-> "none", columns |-> <<>>, rows |-> <<>>]

\* the handler of lines 191-193
Unexpected ==
  [msgs |-> <<"unexpected_exception", "unexpected_traceback">>,
   chart |-> NoChart]

\* the position of the row of a name in the Close matrix
RowAt(close, n) == CHOOSE i \in 1..Len(close.rows) : close.rows[i].label = n

HasRow(close, n) == \E i \in 1..Len(close.rows) : close.rows[i].label = n

\* a selection that takes the first rows, whatever their names
Loc_positional(close, names) ==
  [close EXCEPT !.rows = [i \in 1..Len(names) |-> close.rows[i]]]

\* df_close_processed.loc[companies] (line 112): the named rows, in the order
\* of the selection
Loc(close, names) ==
  [close EXCEPT !.rows = [i \in 1..Len(names) |-> close.rows[RowAt(close, names[i])]]]

\* a row of the long form; like a price, a date and a name are one-element
\* sequences
LongRow(d, n, v) ==
  [c \in {"Date", "Name", "Stock Prices(USD)"} |->
     IF c = "Date" THEN <<d>> ELSE IF c = "Name" THEN <<n>> ELSE v]

\* the (row, date) positions of a matrix, row by row
Cells(lines) ==
  [k \in 1..(Len(lines.rows) * Len(lines.columns)) |->
     [r |-> ((k - 1) \div Len(lines.columns)) + 1,
      d |-> lines.columns[((k - 1) % Len(lines.columns)) + 1]]]

\* an un-pivot that drops the rows without a price
Melt_dropna(lines) ==
  LET cells == Cells(lines)
      kept == SelectSeq(cells, LAMBDA c : lines.rows[c.r].data[c.d] # Missing)
  IN  [k \in 1..Len(kept) |->
         LongRow(kept[k].d, lines.rows[kept[k].r].label,
                 lines.rows[kept[k].r].data[kept[k].d])]

\* lines 116-121: data_lines.T.reset_index() then pd.melt, one row per
\* (instrument, date), instrument by instrument
Melt(lines) ==
  LET cells == Cells(lines)
  IN  [k \in 1..Len(cells) |->
         LongRow(cells[k].d, lines.rows[cells[k].r].label,
                 lines.rows[cells[k].r].data[cells[k].d])]

LineChart(rows) ==
  [kind |-> "line", columns |-> <<"Date", "Name", "Stock Prices(USD)">>,
   rows |-> rows]

\* the multi-line branch without the test of line 108
MultiLineStage_unguarded(close, names) ==
  IF \E i \in 1..Len(names) : ~HasRow(close, names[i]) THEN Unexpected
  ELSE [msgs |-> <<>>, chart |-> LineChart(Melt(Loc(close, names)))]

\* the multi-line branch (lines 108-135): the messages it emits and the chart
\* it hands to st.altair_chart
MultiLineStage(close, names) ==
  IF names = <<>> THEN [msgs |-> <<"no_selection">>, chart |-> NoChart]
  ELSE IF \E i \in 1..Len(names) : ~HasRow(close, names[i]) THEN Unexpected
  ELSE [msgs |-> <<>>, chart |-> LineChart(Melt(Loc(close, names)))]

\* hist_data.loc[:, (slice(None), selected_ticker)] and droplevel(1)
\* (lines 152-153): the columns of the symbol, labelled by their outer level
Projected(hist, sym) ==
  LET at == SortedSeq({i \in 1..Len(hist.columns) :
                         hist.columns[i].label[2] = <<sym>>})
  IN  [i \in 1..Len(at) |->
         [label |-> hist.columns[at[i]].label[1],
          data |-> hist.columns[at[i]].data]]

HasField(cols, f) == \E i \in 1..Len(cols) : cols[i].label = <<f>>

\* a selection that keeps every column
SelectFields_all(cols, fields) == cols

\* ohlc_data[['Open', 'High', 'Low', 'Close']] (line 154)
SelectFields(cols, fields) ==
  [k \in 1..Len(fields) |->
     cols[CHOOSE i \in 1..Len(cols) : cols[i].label = <<fields[k]>>]]

\* reset_index() (line 154): the date index becomes the first column
ResetIndex(index, cols) ==
  [columns |-> <<"Date">> \o [k \in 1..Len(cols) |-> cols[k].label[1]],
   rows |-> [i \in 1..Len(index) |->
      [c \in {"Date"} \cup {cols[k].label[1] : k \in 1..Len(cols)} |->
         IF c = "Date" THEN <<index[i]>>
         ELSE cols[CHOOSE k \in 1..Len(cols) : cols[k].label[1] = c].data[index[i]]]]]

\* the candlestick branch (lines 147-186)
CandlestickStage(hist, sym) ==
  IF hist.nlevels # 2 THEN Unexpected
  ELSE LET cols == Projected(hist, sym)
       IN  IF cols = <<>> \/ \E k \in 1..Len(OHLCFields) : ~HasField(cols, OHLCFields[k])
           THEN Unexpected
           ELSE LET ohlc_data == ResetIndex(hist.index, SelectFields(cols, OHLCFields))
                IN  IF Len(ohlc_data.rows) = 0
                    THEN [msgs |-> <<"candle_empty">>, chart |-> NoChart]
                    ELSE [msgs |-> <<>>,
                          chart |-> [kind |-> "candle",
                                     columns |-> ohlc_data.columns,
                                     rows |-> ohlc_data.rows]]

(***************************************************************************)
(* The memoization of st.cache_data (line 31): a mapping from the          *)
(* arguments (days, tickers) to the returned value and the st.error        *)
(* elements emitted inside the function, which are replayed on a hit.  No  *)
(* ttl and no max_entries are given, so entries are never dropped.         *)
(***************************************************************************)
CacheHas(c, key) == key \in DOMAIN c

\* a cache that keeps the newest entry only
CacheStore_newest(c, key, entry) == [x \in {key} |-> entry]

\* a cache that stores successful results only
CacheStore_successes(c, key, entry) ==
  IF Len(entry.ret) = 2 /\ entry.ret[1] # None
  THEN [x \in DOMAIN c \cup {key} |-> IF x = key THEN entry ELSE c[x]]
  ELSE c

CacheStore(c, key, entry) ==
  [x \in DOMAIN c \cup {key} |-> IF x = key THEN entry ELSE c[x]]

EmptyMap == [x \in {} |-> 0]

\* one more occurrence of r in a multiset of requests
Logged(log, r) ==
  [x \in DOMAIN log \cup {r} |->
     IF x = r THEN (IF r \in DOMAIN log THEN log[r] + 1 ELSE 1) ELSE log[x]]

(***************************************************************************)
(* State.                                                                  *)
(***************************************************************************)
VARIABLES
  market,            \* what the provider knows (the environment)
  tickers,           \* the dict `tickers`
  days,              \* the slider of line 19
  chart_type,        \* the radio of line 91: "line" or "candle"
  companies,         \* the multiselect of line 102
  selected_company,  \* the selectbox of line 141
  cache,             \* the entries of st.cache_data
  requests,          \* the calls of yf.download so far, with their count
  pc,                \* the position of the script in the render pass
  resp,              \* the outcome of the download of this pass, if any
  ret,               \* what get_data returned in this pass
  msgs,              \* the st.error elements of this pass, in order
  chart,             \* what this pass handed to st.altair_chart
  failedKeys,        \* the arguments for which get_data has returned a failure
  failedAtStart,     \* whether the arguments of this pass were among them
  requestsAtStart    \* the calls of yf.download when this pass began

vars == <<market, tickers, days, chart_type, companies, selected_company,
          cache, requests, pc, resp, ret, msgs, chart, failedKeys,
          failedAtStart, requestsAtStart>>

NoResp == [kind |-> "none", hist |-> EmptyFrame]

\* a returned value that fails the test of line 88, or cannot be unpacked
IsFailure(v) == Len(v) # 2 \/ v[1] = None \/ v[2] = None

\* the default of the slider (line 19), within the model's range
DefaultDays == IF 30 <= MaxDays THEN 30 ELSE MaxDays

\* the default of the multiselect (line 105), among the instruments kept
DefaultCompanies(tkrs) ==
  SelectSeq(<<"google", "amazon", "meta", "apple">>,
            LAMBDA n : n \in Range(company_names(tkrs)))

\* the default of the selectbox (line 144)
DefaultCompany == "apple"

Key == <<days, tickers>>

(***************************************************************************)
(* The steps of a render pass.                                             *)
(***************************************************************************)
\* a user interaction: the widgets take new values and the script runs again.
\* Only the widget of the chosen chart type is on the page.
Rerun(d, ct, co, sc) ==
  /\ pc = "done"
  /\ days' = d
  /\ chart_type' = ct
  /\ companies' = co
  /\ selected_company' = sc
  /\ pc' = "fetch"
  /\ resp' = NoResp
  /\ ret' = None
  /\ msgs' = <<>>
  /\ chart' = NoChart
  /\ failedAtStart' = (<<d, tickers>> \in failedKeys)
  /\ requestsAtStart' = requests
  /\ UNCHANGED <<market, tickers, cache, requests, failedKeys>>

\* line 86, the arguments are in the cache: the stored value is returned and
\* the stored elements are replayed; yf.download is not called
GetDataHit ==
  /\ pc = "fetch"
  /\ CacheHas(cache, Key)
  /\ ret' = cache[Key].ret
  /\ msgs' = msgs \o cache[Key].msgs
  /\ failedKeys' = IF IsFailure(cache[Key].ret) THEN failedKeys \cup {Key}
                   ELSE failedKeys
  /\ pc' = "unpack"
  /\ UNCHANGED <<market, tickers, days, chart_type, companies,
                 selected_company, cache, requests, resp, chart,
                 failedAtStart, requestsAtStart>>

\* line 86, the arguments are not in the cache: get_data runs, calls
\* yf.download once, and its result is stored
GetDataMiss(r) ==
  /\ pc = "fetch"
  /\ ~CacheHas(cache, Key)
  /\ r \in download(Request(days, tickers), market)
  /\ LET out == get_data(tickers, r)
     IN  /\ ret' = out.ret
         /\ msgs' = msgs \o out.msgs
         /\ cache' = CacheStore(cache, Key, out)
         /\ failedKeys' = IF IsFailure(out.ret) THEN failedKeys \cup {Key}
                          ELSE failedKeys
  /\ requests' = Logged(requests, Request(days, tickers))
  /\ resp' = r
  /\ pc' = "unpack"
  /\ UNCHANGED <<market, tickers, days, chart_type, companies,
                 selected_company, chart, failedAtStart, requestsAtStart>>

\* lines 86-88 and 188-189: the returned value is unpacked into two names (a
\* TypeError on the bare None, caught at line 191) and both are tested
Unpack ==
  /\ pc = "unpack"
  /\ IF Len(ret) # 2
     THEN /\ msgs' = msgs \o Unexpected.msgs
          /\ pc' = "done"
     ELSE IF ret[1] # None /\ ret[2] # None
          THEN /\ msgs' = msgs
               /\ pc' = "shape"
          ELSE /\ msgs' = msgs \o <<"pipeline_failed">>
               /\ pc' = "done"
  /\ UNCHANGED <<market, tickers, days, chart_type, companies,
                 selected_company, cache, requests, resp, ret, chart,
                 failedKeys, failedAtStart, requestsAtStart>>

\* lines 99-135
MultiLine ==
  /\ pc = "shape"
  /\ chart_type = "line"
  /\ LET out == MultiLineStage(ret[2][1], companies)
     IN  /\ msgs' = msgs \o out.msgs
         /\ chart' = out.chart
  /\ pc' = "done"
  /\ UNCHANGED <<market, tickers, days, chart_type, companies,
                 selected_company, cache, requests, resp, ret,
                 failedKeys, failedAtStart, requestsAtStart>>

\* lines 138-186
Candlestick ==
  /\ pc = "shape"
  /\ chart_type = "candle"
  /\ LET out == CandlestickStage(ret[1][1], SymbolOf(tickers, selected_company))
     IN  /\ msgs' = msgs \o out.msgs
         /\ chart' = out.chart
  /\ pc' = "done"
  /\ UNCHANGED <<market, tickers, days, chart_type, companies,
                 selected_company, cache, requests, resp, ret,
                 failedKeys, failedAtStart, requestsAtStart>>

(***************************************************************************)
(* Spec: a session of the script.  The first pass runs with the widgets'   *)
(* defaults; every later pass follows a user interaction.                  *)
(***************************************************************************)
\* the most (symbol, date) pairs without a quote
MaxHoles == 1

\* the markets of a session have a quote for every symbol on every trading
\* day; markets with holes are the inputs of SpecFetch and SpecShape
Calendars == Markets({}, MaxHoles)

Symbols(tkrs) == Range(tkr_list(tkrs))

Fresh ==
  /\ cache = EmptyMap
  /\ requests = EmptyMap
  /\ resp = NoResp
  /\ ret = None
  /\ msgs = <<>>
  /\ chart = NoChart
  /\ failedKeys = {}
  /\ failedAtStart = FALSE
  /\ requestsAtStart = EmptyMap

Init ==
  /\ tickers = Tickers
  /\ market \in Calendars
  /\ days = DefaultDays
  /\ chart_type = "line"
  /\ companies = DefaultCompanies(Tickers)
  /\ selected_company = DefaultCompany
  /\ pc = "fetch"
  /\ Fresh

Interact ==
  \/ \E d \in 1..MaxDays, co \in Arrangements(Range(company_names(tickers))) :
        Rerun(d, "line", co, DefaultCompany)
  \/ \E d \in 1..MaxDays, sc \in Range(company_names(tickers)) :
        Rerun(d, "candle", DefaultCompanies(tickers), sc)

Download == \E r \in download(Request(days, tickers), market) : GetDataMiss(r)

Next ==
  \/ Interact
  \/ GetDataHit
  \/ Download
  \/ Unpack
  \/ MultiLine
  \/ Candlestick

Spec == Init /\ [][Next]_vars

(***************************************************************************)
(* SpecFetch: get_data as a function of its arguments, called once with    *)
(* any day count from 0 and any non-empty sub-mapping of the instruments.  *)
(***************************************************************************)
SubMappings ==
  {[i \in 1..Len(SortedSeq(S)) |-> Tickers[SortedSeq(S)[i]]] :
      S \in (SUBSET (1..Len(Tickers))) \ {{}}}

InitFetch ==
  /\ tickers \in SubMappings
  /\ market \in Markets(Symbols(Tickers), MaxHoles)
  /\ days \in 0..MaxDays
  /\ chart_type = "line"
  /\ companies = DefaultCompanies(tickers)
  /\ selected_company = DefaultCompany
  /\ pc = "fetch"
  /\ Fresh

NextFetch == Download

SpecFetch == InitFetch /\ [][NextFetch]_vars

(***************************************************************************)
(* SpecShape: the two shaping branches as functions of the tables that     *)
(* get_data returned and of the widgets, over every table of two-level     *)
(* columns, the table without rows included.                               *)
(***************************************************************************)
InitShape ==
  /\ tickers = Tickers
  /\ market \in Markets(Symbols(Tickers), MaxHoles)
  /\ days = DefaultDays
  /\ \/ /\ chart_type = "line"
        /\ companies \in Arrangements(Range(company_names(Tickers)))
        /\ selected_company = DefaultCompany
     \/ /\ chart_type = "candle"
        /\ companies = DefaultCompanies(Tickers)
        /\ selected_company \in Range(company_names(Tickers))
  /\ \E rows \in SUBSET market.trading :
        LET hist == ProviderFrame(tkr_list(Tickers), SortedSeq(rows), market,
                                  FALSE, "DatetimeIndex")
        IN  ret = <<Some(hist), Some(CloseMatrix(hist, Tickers))>>
  /\ pc = "shape"
  /\ cache = EmptyMap
  /\ requests = EmptyMap
  /\ resp = NoResp
  /\ msgs = <<>>
  /\ chart = NoChart
  /\ failedKeys = {}
  /\ failedAtStart = FALSE
  /\ requestsAtStart = EmptyMap

NextShape == MultiLine \/ Candlestick

SpecShape == InitShape /\ [][NextShape]_vars

(***************************************************************************)
(* Properties.                                                             *)
(***************************************************************************)
Returned == pc \in {"unpack", "shape", "done"}

FetchMsgs == {"fetch_empty", "fetch_exception", "fetch_traceback"}

\* C1 (Spec): in a session the provider is asked at most once for each key
\* (day_count, instrument mapping): no request is logged twice, two logged
\* requests have different keys, the result of every request made is still
\* stored in the cache, and what get_data returned in a pass is the stored
\* result of its key.
C1_OneRequestPerKey ==
  /\ \A r \in DOMAIN requests : requests[r] = 1 /\ CacheHas(cache, r.key)
  /\ \A r1, r2 \in DOMAIN requests : r1.key = r2.key => r1 = r2
  /\ Returned => (CacheHas(cache, Key) /\ ret = cache[Key].ret)

\* a pass served from the cache, after passes with another key, with one
\* request per key in the log
C1_Witness ==
  /\ pc = "done"
  /\ requests = requestsAtStart
  /\ Cardinality(DOMAIN requests) >= 2
  /\ Request(days, tickers) \in DOMAIN requests
  /\ ~IsFailure(ret)

\* C2 (SpecFetch): for day_count >= 1, get_data returns either a table with
\* at least one row and no message, or a failure with a message; when the
\* provider returns no rows the result is the bare None with the message of
\* line 45, so no table without rows is returned.
C2_NonEmptyOrError ==
  (pc = "unpack" /\ days >= 1) =>
    /\ \/ IsFailure(ret) /\ msgs # <<>>
       \/ ~IsFailure(ret) /\ msgs = <<>> /\ Len(ret[1][1].index) >= 1
    /\ (resp.kind = "frame" /\ Len(resp.hist.index) = 0) =>
          (ret = None /\ msgs = <<"fetch_empty">>)

\* the provider returned columns without rows and get_data reported it
C2_Witness ==
  /\ pc = "unpack"
  /\ days >= 1
  /\ resp.kind = "frame"
  /\ Len(resp.hist.index) = 0
  /\ Len(resp.hist.columns) > 0
  /\ msgs = <<"fetch_empty">>

\* C3 (Spec), as claimed: a pass that reported an error rendered no chart,
\* and an error of the fetch stage is reported by get_data (and by the test
\* of line 88) without reaching the exception handler of lines 191-193.
C3_ErrorsCaughtAtOwnStage ==
  (pc = "done" /\ msgs # <<>>) =>
    /\ chart = NoChart
    /\ (Range(msgs) \cap FetchMsgs # {}) =>
          "unexpected_exception" \notin Range(msgs)

\* C4 (Spec): once get_data has returned a failure for the key of a pass,
\* that pass makes no provider request, get_data returns a failure again,
\* and the pass ends with a message and no chart.
C4_NoRetry ==
  failedAtStart =>
    /\ requests = requestsAtStart
    /\ Returned => IsFailure(ret)
    /\ pc = "done" => (msgs # <<>> /\ chart = NoChart)

\* a finished pass on a key that had failed, after a pass on another key
C4_Witness ==
  /\ failedAtStart
  /\ pc = "done"
  /\ Cardinality(DOMAIN cache) >= 2
  /\ msgs # <<>>

\* every column is a (field, symbol) pair of a requested symbol, and every
\* requested symbol has its four OHLC columns
WellGrouped(h, syms) ==
  /\ h.nlevels = 2
  /\ \A i \in 1..Len(h.columns) :
        \E f \in Range(ProviderFields), y \in Range(syms) :
           h.columns[i].label = Label2(f, y)
  /\ \A f \in Range(OHLCFields), y \in Range(syms) : ColumnAt(h, Label2(f, y)) # 0

\* C5 (SpecFetch), as claimed: whenever the provider returns rows under a
\* DatetimeIndex, for one symbol or several, with or without the symbol
\* level, get_data returns a table whose columns are (field, symbol) pairs
\* with the four OHLC fields of every symbol.
C5_UniformGrouping ==
  (pc = "unpack" /\ resp.kind = "frame" /\ ~IsEmpty(resp.hist)
     /\ resp.hist.indexKind = "DatetimeIndex") =>
    /\ ~IsFailure(ret)
    /\ WellGrouped(ret[1][1], tkr_list(tickers))

\* the same for a table whose index is no DatetimeIndex, where lines 51-52 run
C5_RewrapBranch ==
  (pc = "unpack" /\ resp.kind = "frame" /\ ~IsEmpty(resp.hist)
     /\ resp.hist.indexKind # "DatetimeIndex" /\ resp.hist.nlevels = 1) =>
    /\ ~IsFailure(ret)
    /\ WellGrouped(ret[1][1], tkr_list(tickers))

\* C6 (SpecFetch), as claimed: with day_count < 1 get_data makes no provider
\* request and reports a precondition violation.
C6_PreconditionReported ==
  (pc = "unpack" /\ days < 1) =>
    /\ requests = EmptyMap
    /\ "precondition_violation" \in Range(msgs)

\* C6 (SpecFetch), amended: get_data does not validate day_count: with
\* day_count < 1 it makes one provider request whose window is inverted
\* (start after end), and the only reports are those of a failed fetch.
C6_NoValidation ==
  (pc = "unpack" /\ days < 1) =>
    /\ DOMAIN requests = {Request(days, tickers)}
    /\ \A r \in DOMAIN requests : requests[r] = 1 /\ r.start > r.end
    /\ IsFailure(ret)
    /\ msgs # <<>>
    /\ Range(msgs) \subseteq FetchMsgs

\* get_data has returned for day_count 0 and one instrument
C6_Witness ==
  /\ pc = "unpack"
  /\ days = 0
  /\ Len(tickers) = 1
  /\ Cardinality(DOMAIN requests) = 1

\* C7 (Spec): a multi-line pass with an empty selection renders no chart,
\* and when the fetch succeeded its only message is that of line 109.
C7_NoSelection ==
  (pc = "done" /\ chart_type = "line" /\ companies = <<>>) =>
    /\ chart = NoChart
    /\ ~IsFailure(ret) => msgs = <<"no_selection">>

\* a multi-line pass with data and an empty selection has ended
C7_Witness ==
  /\ pc = "done"
  /\ chart_type = "line"
  /\ companies = <<>>
  /\ ~IsFailure(ret)
  /\ msgs = <<"no_selection">>

\* the rows of a long form for one (name, date) pair
RowsOf(rows, n, d) ==
  {k \in 1..Len(rows) : rows[k]["Name"] = <<n>> /\ rows[k]["Date"] = <<d>>}

\* the price of a name on a date in a Close matrix
CloseAt(close, n, d) == close.rows[RowAt(close, n)].data[d]

\* C8 (SpecShape): with a non-empty selection the multi-line branch renders
\* a long form of |selected| x |dates| rows, exactly one per (date, selected
\* name) pair, carrying the price of the Close matrix, missing when it is
\* missing there.
C8_OneRowPerPair ==
  (pc = "done" /\ chart_type = "line" /\ companies # <<>>) =>
    LET close == ret[2][1]
    IN  /\ chart.kind = "line"
        /\ Len(chart.rows) = Len(companies) * Len(close.columns)
        /\ \A n \in Range(companies), d \in Range(close.columns) :
              /\ Cardinality(RowsOf(chart.rows, n, d)) = 1
              /\ \A k \in RowsOf(chart.rows, n, d) :
                    chart.rows[k]["Stock Prices(USD)"] = CloseAt(close, n, d)

\* a long form of two instruments and at least two dates with a missing price
C8_Witness ==
  /\ pc = "done"
  /\ chart.kind = "line"
  /\ Len(companies) = 2
  /\ Len(ret[2][1].columns) >= 2
  /\ Len(chart.rows) = 2 * Len(ret[2][1].columns)
  /\ \E k \in 1..Len(chart.rows) : chart.rows[k]["Stock Prices(USD)"] = Missing

\* the names-by-dates matrix of a long form: its names, its dates and the
\* price of every (name, date) pair, a pair with no row or several rows
\* having none
Pivot(rows) ==
  LET names == {rows[k]["Name"][1] : k \in 1..Len(rows)}
      dates == {rows[k]["Date"][1] : k \in 1..Len(rows)}
  IN  [names |-> names, dates |-> dates,
       cell |-> [c \in names \X dates |->
          IF Cardinality(RowsOf(rows, c[1], c[2])) = 1
          THEN Some(rows[CHOOSE k \in RowsOf(rows, c[1], c[2]) : TRUE]
                        ["Stock Prices(USD)"])
          ELSE None]]

\* a Close matrix restricted to the rows of a selection, in the same form
Restricted(close, names) ==
  [names |-> Range(names), dates |-> Range(close.columns),
   cell |-> [c \in Range(names) \X Range(close.columns) |->
                Some(CloseAt(close, c[1], c[2]))]]

\* C9 (SpecShape): for a Close matrix as get_data returns it (at least one
\* date) and a non-empty selection, pivoting the rendered long form back
\* gives the Close matrix restricted to the selected names.
C9_RoundTrip ==
  (pc = "done" /\ chart_type = "line" /\ companies # <<>>
     /\ Len(ret[2][1].columns) >= 1) =>
    Pivot(chart.rows) = Restricted(ret[2][1], companies)

\* a round trip of a proper subset of the instruments, selected against the
\* order of the matrix, with a missing price
C9_Witness ==
  /\ pc = "done"
  /\ chart.kind = "line"
  /\ Len(companies) < Len(ret[2][1].rows)
  /\ companies[1] # ret[2][1].rows[1].label
  /\ Len(ret[2][1].columns) >= 2
  /\ \E c \in DOMAIN Pivot(chart.rows).cell :
        Pivot(chart.rows).cell[c] = Some(Missing)

\* the value of a field of a symbol on a date in the OHLC table
HistAt(h, f, y, d) == h.columns[ColumnAt(h, Label2(f, y))].data[d]

\* C10 (SpecShape): the candlestick branch renders a table with exactly the
\* columns Date, Open, High, Low, Close and one row per date of the OHLC
\* table, carrying the values of the selected symbol; when the OHLC table has
\* no rows it renders nothing and emits the message of line 157.
C10_CandlestickTable ==
  (pc = "done" /\ chart_type = "candle") =>
    LET hist == ret[1][1]
        sym == SymbolOf(tickers, selected_company)
    IN  IF Len(hist.index) = 0
        THEN chart = NoChart /\ msgs = <<"candle_empty">>
        ELSE /\ msgs = <<>>
             /\ chart.kind = "candle"
             /\ chart.columns = <<"Date">> \o OHLCFields
             /\ Len(chart.rows) = Len(hist.index)
             /\ \A i \in 1..Len(hist.index) :
                   /\ DOMAIN chart.rows[i] = Range(chart.columns)
                   /\ chart.rows[i]["Date"] = <<hist.index[i]>>
                   /\ \A f \in Range(OHLCFields) :
                         chart.rows[i][f] = HistAt(hist, f, sym, hist.index[i])

\* a candlestick table of at least two dates for an instrument other than
\* the first, one date without quotes
C10_Witness ==
  /\ pc = "done"
  /\ chart.kind = "candle"
  /\ selected_company # DefaultCompany
  /\ Len(chart.rows) >= 2
  /\ \E i \in 1..Len(chart.rows) : chart.rows[i]["Close"] = Missing

\* the candlestick branch on an OHLC table without rows
C10_EmptyReached ==
  /\ pc = "done"
  /\ chart_type = "candle"
  /\ Len(ret[1][1].index) = 0
  /\ msgs = <<"candle_empty">>

=============================================================================
